---- MODULE Spec2Model ----
(***************************************************************************)
(* ARC (AI Resume Critique): the candidate evaluation pipeline.            *)
(*                                                                         *)
(*   SpecWeights  the scoring-weight sliders of the sidebar                *)
(*                (src/arc/ui/sidebar.py, _render_scoring_section)         *)
(*   SpecEval     one evaluate_candidate call with its retry loop          *)
(*                (src/arc/evaluation.py)                                  *)
(*   Spec         _handle_processing: load the previous results file,      *)
(*                process_candidates, merge, create_output_file, summary,  *)
(*                run twice, the second run reading the first run's file   *)
(*                (src/arc/ui/main_content.py, src/arc/processing.py,      *)
(*                src/arc/excel_output.py)                                 *)
(*   SpecPool     the ThreadPoolExecutor of process_candidates             *)
(*                (src/arc/processing.py 313-339)                          *)
(*   SpecBatch    the same executor through whole batches, with calls that *)
(*                never return and fair scheduling of the workers          *)
(*                (src/arc/processing.py 310-347)                          *)
(*   SpecPrior    one run on a previous results file the user uploads      *)
(*                (src/arc/ui/main_content.py 218-247)                     *)
(***************************************************************************)
EXTENDS Integers, Sequences, FiniteSets, TLC

VARIABLES
    \* ---- sidebar (SpecWeights)
    required_weight, preferred_weight, education_weight, custom_weights,
    \* ---- evaluate_candidate (SpecEval)
    ev, responses,
    \* ---- _handle_processing / process_candidates / create_output_file (Spec)
    df, require_us_citizenship, test_count, run, pc, previous_results_file,
    already_processed, disqualified_non_us, skipped_candidates,
    previous, valid_candidates, pending, completed_count, results, raised,
    llm_calls, called, report, output_file, first_run,
    \* ---- the ThreadPoolExecutor of process_candidates (SpecPool)
    total_valid, submitted, threads, started, running, finished, invocations,
    idle, handled, executor, stuck

wvars == <<required_weight, preferred_weight, education_weight, custom_weights>>
evars == <<ev, responses>>
pvars == <<df, require_us_citizenship, test_count, run, pc, previous_results_file,
           already_processed, disqualified_non_us, skipped_candidates,
           previous, valid_candidates, pending, completed_count, results, raised,
           llm_calls, called, report, output_file, first_run>>
poolvars == <<total_valid, submitted, threads, started, running, finished, invocations,
              idle, handled, executor, stuck>>
vars == <<wvars, evars, pvars, poolvars>>

None == "None"

Min(a, b) == IF a <= b THEN a ELSE b

RECURSIVE Pow2(_)
Pow2(n) == IF n = 0 THEN 1 ELSE 2 * Pow2(n - 1)

(***************************************************************************)
(* Scoring weights: src/arc/ui/sidebar.py                                  *)
(***************************************************************************)
SliderMax == 100
SliderStep == 5
DefaultRequired == 50
DefaultPreferred == 30
DefaultEducation == 20

SliderValues == {v \in 0..SliderMax : v % SliderStep = 0}

\* A tie always going up, as a hand-written round(x + 0.5) would do.
RoundRatioHalfUp(num, den) ==
    LET q == num \div den
        r == num % den
    IN  IF 2 * r >= den THEN q + 1 ELSE q

\* Python's round() of the ratio num/den: to the nearest integer, a tie going to
\* the even neighbour.  On the slider values the double (w / total) * 100 rounds
\* as the exact ratio 100*w / total does.
RoundRatio(num, den) ==
    LET q == num \div den
        r == num % den
    IN  IF 2 * r > den THEN q + 1
        ELSE IF 2 * r < den THEN q
        ELSE IF q % 2 = 0 THEN q ELSE q + 1

\* int(round((weight / total_weight) * 100))
NormalizedShare(weight, total_weight) == RoundRatio(100 * weight, total_weight)

\* The value st.session_state.custom_weights gets from the three sliders.
NormalizeWeights(req, pref, edu) ==
    LET total_weight == req + pref + edu
    IN  IF total_weight > 0
        THEN LET normalized_req == NormalizedShare(req, total_weight)
                 normalized_pref == NormalizedShare(pref, total_weight)
             IN  [required_skills |-> normalized_req,
                  preferred_skills |-> normalized_pref,
                  education |-> 100 - normalized_req - normalized_pref]
        ELSE None

WeightsInit ==
    /\ required_weight = DefaultRequired
    /\ preferred_weight = DefaultPreferred
    /\ education_weight = DefaultEducation
    /\ custom_weights = NormalizeWeights(DefaultRequired, DefaultPreferred, DefaultEducation)

\* The user moves one slider; Streamlit reruns _render_scoring_section.
MoveRequired(v) ==
    /\ required_weight' = v
    /\ custom_weights' = NormalizeWeights(v, preferred_weight, education_weight)
    /\ UNCHANGED <<preferred_weight, education_weight>>

MovePreferred(v) ==
    /\ preferred_weight' = v
    /\ custom_weights' = NormalizeWeights(required_weight, v, education_weight)
    /\ UNCHANGED <<required_weight, education_weight>>

MoveEducation(v) ==
    /\ education_weight' = v
    /\ custom_weights' = NormalizeWeights(required_weight, preferred_weight, v)
    /\ UNCHANGED <<required_weight, preferred_weight>>

(***************************************************************************)
(* The LLM Gateway as evaluate_candidate sees it: client.create_message    *)
(* returns text or raises.                                                 *)
(***************************************************************************)
MAX_RETRIES == 3
BASE_DELAY == 2
MAX_DELAY == 30

\* Model bounds
TicksPerSecond == 10
MaxRows == 2
MaxTest == 1
MaxValid == 12
MaxPrior == 2
MaxBatch == 11

Scores == {0, 70, 90}

\* What str(error).lower() is searched for.
ThrottlingTerms == {"throttl", "rate limit", "too many requests", "serviceunav", "429", "503"}

\* An exception of the Gateway: its text, and the throttling terms that occur in
\* the lowercased text.
Exceptions ==
    { [text |-> "ThrottlingException: Rate exceeded", terms |-> {"throttl"}],
      [text |-> "HTTP 429 Too Many Requests", terms |-> {"too many requests", "429"}],
      [text |-> "AccessDeniedException", terms |-> {}],
      [text |-> "ValidationException: max_tokens", terms |-> {}] }

NoException == [text |-> "", terms |-> {}]

\* A Gateway answer: text that parses to a JSON object (with its overall_score
\* and its "error" key, '' when it has none), text that parses to JSON that is
\* no object (a list, a number), text that is no JSON, or an exception.
JsonObject(score) ==
    [kind |-> "object", score |-> score, error |-> "", exc |-> NoException]
JsonObjectWithError(score) ==
    [kind |-> "object", score |-> score, error |-> "model error", exc |-> NoException]
JsonNonObject == [kind |-> "nonobject", score |-> 0, error |-> "", exc |-> NoException]
Malformed == [kind |-> "malformed", score |-> 0, error |-> "", exc |-> NoException]
Raises(e) == [kind |-> "raises", score |-> 0, error |-> "", exc |-> e]

Responses ==
    {JsonObject(s) : s \in Scores} \cup {JsonObjectWithError(90), JsonNonObject, Malformed}
        \cup {Raises(e) : e \in Exceptions}

\* A classifier that takes every Gateway exception for a throttling error.
AnyErrorIsThrottling(error) == error.text # ""

_is_throttling_error(error) == \E term \in ThrottlingTerms : term \in error.terms

(***************************************************************************)
(* evaluate_candidate: src/arc/evaluation.py                               *)
(***************************************************************************)
\* The dict evaluate_candidate returns (value: what json.loads gave).
ParsedResult(resp) ==
    [value |-> IF resp.kind = "object" THEN "object" ELSE "nonobject",
     error |-> resp.error, detail |-> "", overall_score |-> resp.score]
JsonParseError ==
    [value |-> "object", error |-> "JSON Parse Error", detail |-> "",
     overall_score |-> 0]
ApiError(last_error) ==
    [value |-> "object", error |-> "API Error", detail |-> last_error.text,
     overall_score |-> 0]
NoResult == [value |-> None, error |-> "", detail |-> "", overall_score |-> 0]

\* The retry test of the except branch with every attempt retried, the last too.
CanRetryLastToo(error, attempt) == _is_throttling_error(error) /\ attempt <= MAX_RETRIES

\* A retry after any exception while attempts remain.
CanRetryAnyError(error, attempt) == attempt < MAX_RETRIES

\* if _is_throttling_error(e) and attempt < MAX_RETRIES
CanRetry(error, attempt) == _is_throttling_error(error) /\ attempt < MAX_RETRIES

\* A delay that does not grow with the attempt.
BackoffDelayConstant(attempt, jitter) ==
    Min(BASE_DELAY * TicksPerSecond + jitter, MAX_DELAY * TicksPerSecond)

\* min(BASE_DELAY * (2 ** attempt) + random.uniform(0, 1), MAX_DELAY), in ticks
BackoffDelay(attempt, jitter) ==
    Min(BASE_DELAY * Pow2(attempt) * TicksPerSecond + jitter, MAX_DELAY * TicksPerSecond)

Jitters == {0, TicksPerSecond \div 2, TicksPerSecond}

EvalStart ==
    [attempt |-> 0, calls |-> 0, sleeps |-> 0, delays |-> <<>>,
     last_error |-> NoException, status |-> "calling", result |-> NoResult]

\* A malformed answer treated like a transient failure of the Gateway.
OnMalformedRetry(e) ==
    IF e.attempt < MAX_RETRIES
    THEN [e EXCEPT !.calls = @ + 1, !.status = "sleeping"]
    ELSE [e EXCEPT !.calls = @ + 1, !.status = "returned", !.result = JsonParseError]

\* except json.JSONDecodeError: return the parse-error dict
OnMalformed(e) ==
    [e EXCEPT !.calls = @ + 1, !.status = "returned", !.result = JsonParseError]

\* The except branch keeping the first exception as last_error.
CallStepFirstError(e, resp) ==
    LET first == IF e.last_error = NoException THEN resp.exc ELSE e.last_error
    IN  CASE resp.kind \in {"object", "nonobject"} ->
                [e EXCEPT !.calls = @ + 1, !.status = "returned",
                          !.result = ParsedResult(resp)]
          [] resp.kind = "malformed" -> OnMalformed(e)
          [] resp.kind = "raises" ->
                IF CanRetry(resp.exc, e.attempt)
                THEN [e EXCEPT !.calls = @ + 1, !.last_error = first,
                               !.status = "sleeping"]
                ELSE [e EXCEPT !.calls = @ + 1, !.last_error = first,
                               !.status = "returned", !.result = ApiError(first)]

\* One pass of the try block: the call, then the parse or the except branch.
CallStep(e, resp) ==
    CASE resp.kind \in {"object", "nonobject"} ->
            [e EXCEPT !.calls = @ + 1, !.status = "returned",
                      !.result = ParsedResult(resp)]
      [] resp.kind = "malformed" -> OnMalformed(e)
      [] resp.kind = "raises" ->
            IF CanRetry(resp.exc, e.attempt)
            THEN [e EXCEPT !.calls = @ + 1, !.last_error = resp.exc,
                           !.status = "sleeping"]
            ELSE [e EXCEPT !.calls = @ + 1, !.last_error = resp.exc,
                           !.status = "returned", !.result = ApiError(resp.exc)]

\* time.sleep(delay); continue: the next attempt of range(MAX_RETRIES + 1), or
\* the end of the loop and the return after it.
SleepStep(e, jitter) ==
    LET slept == [e EXCEPT !.sleeps = @ + 1,
                           !.delays = Append(@, BackoffDelay(e.attempt, jitter)),
                           !.attempt = @ + 1]
    IN  IF e.attempt + 1 <= MAX_RETRIES
        THEN [slept EXCEPT !.status = "calling"]
        ELSE [slept EXCEPT !.status = "returned", !.result = ApiError(e.last_error)]

\* evaluate_candidate against a Gateway whose answers to the successive calls
\* are script[1], script[2], ...
RECURSIVE evaluate_candidate(_, _)
evaluate_candidate(e, script) ==
    IF e.status = "returned" THEN e
    ELSE IF e.status = "sleeping" THEN evaluate_candidate(SleepStep(e, 0), script)
    ELSE evaluate_candidate(CallStep(e, Head(script)), Tail(script))

EvalInit ==
    /\ ev = EvalStart
    /\ responses = <<>>

GatewayCall(resp) ==
    /\ ev.status = "calling"
    /\ ev' = CallStep(ev, resp)
    /\ responses' = Append(responses, resp)

BackoffSleep(jitter) ==
    /\ ev.status = "sleeping"
    /\ ev' = SleepStep(ev, jitter)
    /\ UNCHANGED responses

(***************************************************************************)
(* Candidate rows and the records of the result sheets                     *)
(***************************************************************************)
\* A cell of the Email column: its letters (lowercased), whether it has capital
\* letters, whether it has surrounding whitespace.  NaN is the empty cell.
Email(name, caps, padded) == [name |-> name, caps |-> caps, padded |-> padded]
NaNEmail == Email("NaN", FALSE, FALSE)
NotProvided == Email("not provided", TRUE, FALSE)

InputEmails == {NaNEmail, Email("ann@x.org", FALSE, FALSE), Email("bob@x.org", FALSE, FALSE)}

NaN == "NaN"

\* A row of the candidates file (row: its index in the DataFrame).
Rows ==
    [email : InputEmails, us_citizen : {"Yes", "No"}, resume_text : {"resume", NaN}]

InputFiles == UNION {[1..n -> Rows] : n \in 0..MaxRows}

\* A lower() that leaves the capital letters.
str_keep_case(email) == email

\* Series.str.strip() and Series.str.lower(), str.strip() and str.lower()
str_strip(email) == [email EXCEPT !.padded = FALSE]
str_lower(email) == [email EXCEPT !.caps = FALSE]

\* safe_get(col_name, default): the default for an empty cell
safe_get(val, default, nan) == IF val = nan THEN default ELSE val

extract_candidate_info(idx, row) ==
    [row |-> idx,
     email |-> safe_get(row.email, NotProvided, NaNEmail),
     us_citizen_from_excel |-> safe_get(row.us_citizen, "", NaN),
     resume_text |-> row.resume_text]

is_us_citizen(candidate_info) == candidate_info.us_citizen_from_excel = "Yes"

\* A row of results_df.  full: the record has every column of
\* _evaluate_single_candidate (a batch-level error record has three); Rank 0:
\* no Rank column.  row is the index of the input row, kept for the properties.
\* A record that carries the first row's index whatever the candidate.
ResultRecordOfFirst(candidate_info, score, error, full) ==
    [row |-> 1, Email |-> candidate_info.email,
     OverallScore |-> score, Error |-> error, full |-> full, Rank |-> 0]

ResultRecord(candidate_info, score, error, full) ==
    [row |-> candidate_info.row, Email |-> candidate_info.email,
     OverallScore |-> score, Error |-> error, full |-> full, Rank |-> 0]

SheetRecord(candidate_info, note) ==
    [row |-> candidate_info.row, Email |-> candidate_info.email, Note |-> note]

RowsOf(records) == {records[k].row : k \in 1..Len(records)}

HasError(r) == r.Error # ""
HasNoError(r) == r.Error = ""

(***************************************************************************)
(* The previous results file: src/arc/ui/main_content.py 218-247           *)
(***************************************************************************)
\* A results workbook, as far as it is read back: the 'Ranked Candidates' and
\* 'Disqualified - Non-US Citizens' sheets.  A sheet is in the file only if it
\* has rows ('Disqualified - No Bachelors' never has: disqualified_no_degree is
\* never appended to).
NoFile == [written |-> FALSE, ranked |-> <<>>, disqualified_non_us |-> <<>>]

\* to_excel writes '' as an empty cell, read_excel reads it as NaN
ToCell(r) == [r EXCEPT !.Error = IF @ = "" THEN NaN ELSE @]
\* drop(columns=['Rank']) and ['Error'].fillna('')
FromRankedRow(r) == [r EXCEPT !.Rank = 0, !.Error = IF @ = NaN THEN "" ELSE @]

\* The three DataFrames read back; an empty sequence stands for None as well
\* (every use tests "is not None and len(...) > 0").
NoPrevious == [results |-> <<>>, disqualified_non_us |-> <<>>]

\* read_excel(sheet_name='Ranked Candidates') raises when the sheet is missing:
\* the outer except leaves all three DataFrames None.
LoadPrevious(file) ==
    IF ~file.written THEN NoPrevious
    ELSE IF file.ranked = <<>> THEN NoPrevious
    ELSE [results |-> [k \in 1..Len(file.ranked) |-> FromRankedRow(file.ranked[k])],
          disqualified_non_us |-> file.disqualified_non_us]

(***************************************************************************)
(* process_candidates: src/arc/processing.py                               *)
(***************************************************************************)
PARALLEL_WORKERS == 10

\* Every previous result, the ones with an error too.
all_previous(previous_results_df) == previous_results_df

\* previous_results_df[previous_results_df['Error'] == '']
successfully_processed(previous_results_df) == SelectSeq(previous_results_df, HasNoError)

\* The set built from the disqualification sheet alone.
DisqualifiedIdentifiers(prior) ==
    {str_lower(str_strip(prior.disqualified_non_us[k].Email)) :
        k \in 1..Len(prior.disqualified_non_us)}

\* ['Email'].dropna(): the cells that are not empty
dropna(records) == {records[k].Email : k \in 1..Len(records)} \ {NaNEmail}

\* The set built from the previous results alone.
ResultIdentifiers(prior) ==
    {str_lower(str_strip(email)) : email \in dropna(successfully_processed(prior.results))}

\* The set of already-processed emails, 185-203.
processed_identifiers(prior) ==
    {str_lower(str_strip(email)) : email \in dropna(successfully_processed(prior.results))}
    \cup {str_lower(str_strip(email)) : email \in dropna(prior.disqualified_non_us)}

\* The whole file whatever the test-mode number.
df_uncapped(file, count) == file

\* df.head(test_count) when test_count is truthy (0 stands for None)
df_to_process(file, count) ==
    IF count # 0 THEN SubSeq(file, 1, Min(count, Len(file))) ELSE file

EmptyScan == [already_processed |-> <<>>, disqualified_non_us |-> <<>>,
              candidates_to_process |-> <<>>]

\* The citizenship branch of the loop body, 244-258.
CitizenshipCheck(acc, candidate_info, require) ==
    IF require /\ ~is_us_citizen(candidate_info)
    THEN [acc EXCEPT !.disqualified_non_us =
                Append(@, SheetRecord(candidate_info, "Not a U.S. Citizen"))]
    ELSE [acc EXCEPT !.candidates_to_process = Append(@, candidate_info)]

\* The loop body without the "continue" of the already-processed branch.
ScanRowNoContinue(acc, idx, row, identifiers, require) ==
    LET candidate_info == extract_candidate_info(idx, row)
        candidate_email_lower == str_lower(str_strip(candidate_info.email))
        marked == [acc EXCEPT !.already_processed =
                      Append(@, SheetRecord(candidate_info, "Already processed in previous run"))]
    IN  IF candidate_email_lower \in identifiers
        THEN CitizenshipCheck(marked, candidate_info, require)
        ELSE CitizenshipCheck(acc, candidate_info, require)

\* The loop body with the citizenship check ahead of the already-processed one.
ScanRowCitizenshipFirst(acc, idx, row, identifiers, require) ==
    LET candidate_info == extract_candidate_info(idx, row)
        candidate_email_lower == str_lower(str_strip(candidate_info.email))
    IN  IF require /\ ~is_us_citizen(candidate_info)
        THEN CitizenshipCheck(acc, candidate_info, require)
        ELSE IF candidate_email_lower \in identifiers
        THEN [acc EXCEPT !.already_processed =
                 Append(@, SheetRecord(candidate_info, "Already processed in previous run"))]
        ELSE CitizenshipCheck(acc, candidate_info, require)

\* One pass of the loop over df_to_process.iterrows(), 225-258.
ScanRow(acc, idx, row, identifiers, require) ==
    LET candidate_info == extract_candidate_info(idx, row)
        candidate_email_lower == str_lower(str_strip(candidate_info.email))
    IN  IF candidate_email_lower \in identifiers
        THEN [acc EXCEPT !.already_processed =
                 Append(@, SheetRecord(candidate_info, "Already processed in previous run"))]
        ELSE CitizenshipCheck(acc, candidate_info, require)

RECURSIVE ScanRows(_, _, _, _)
ScanRows(rows, n, identifiers, require) ==
    IF n = 0 THEN EmptyScan
    ELSE ScanRow(ScanRows(rows, n - 1, identifiers, require), n, rows[n],
                 identifiers, require)

\* if not resume_text or pd.isna(resume_text)
NoResumeText(candidate_info) == candidate_info.resume_text \in {"", NaN}

\* The resume filter, 276-293.
skipped_of(candidates_to_process) ==
    LET missing == SelectSeq(candidates_to_process, NoResumeText)
    IN  [k \in 1..Len(missing) |-> SheetRecord(missing[k], "No resume text available")]

HasResumeText(candidate_info) == ~NoResumeText(candidate_info)

\* The resume filter letting every candidate through to the pool.
valid_of_unfiltered(candidates_to_process) == candidates_to_process

valid_of(candidates_to_process) == SelectSeq(candidates_to_process, HasResumeText)

(***************************************************************************)
(* _evaluate_single_candidate and the as_completed loop, 80-144, 313-339   *)
(***************************************************************************)
\* What the future of one candidate holds once the Gateway has answered its
\* calls with script: the result dict, or an exception (evaluation.get on a
\* value that is no dict).
_evaluate_single_candidate(candidate_info, script) ==
    LET e == evaluate_candidate(EvalStart, script)
        evaluation == e.result
    IN  [raises |-> evaluation.value # "object",
         calls |-> e.calls,
         result |-> ResultRecord(candidate_info, evaluation.overall_score,
                                 evaluation.error, TRUE)]

\* The except branch leaving no record of the candidate.
FutureRecordsDropped(candidate_info, future) ==
    IF future.raises THEN <<>> ELSE <<future.result>>

\* try: results.append(future.result()) except Exception: results.append({...})
FutureRecords(candidate_info, future) ==
    IF future.raises
    THEN <<ResultRecord(candidate_info, NaN, "Processing error", FALSE)>>
    ELSE <<future.result>>

\* The Gateway answers one candidate can meet in a batch.
Throttled == Raises([text |-> "ThrottlingException: Rate exceeded", terms |-> {"throttl"}])
Denied == Raises([text |-> "AccessDeniedException", terms |-> {}])
BatchScripts ==
    { <<JsonObject(70)>>, <<JsonObject(90)>>, <<JsonObjectWithError(90)>>,
      <<JsonNonObject>>, <<Throttled, Denied>> }

(***************************************************************************)
(* create_output_file and _create_summary: src/arc/excel_output.py         *)
(***************************************************************************)
Orderings(n) == {p \in [1..n -> 1..n] : \A i, j \in 1..n : i # j => p[i] # p[j]}

\* sort_values('Overall Score', ascending=False), default kind 'quicksort': the
\* rows by descending score, rows of equal score in any order.
SortValues(records) ==
    { [k \in 1..Len(records) |-> records[p[k]]] : p \in
        {q \in Orderings(Len(records)) :
            \A i, j \in 1..Len(records) :
                i < j => records[q[i]].OverallScore >= records[q[j]].OverallScore} }

\* insert(0, 'Rank', range(1, len + 1))
WithRank(records) == [k \in 1..Len(records) |-> [records[k] EXCEPT !.Rank = k]]

HasColumns(results_df) == results_df # <<>>
HasEvaluationColumns(results_df) == \E k \in 1..Len(results_df) : results_df[k].full

\* results_df['Error'] on a DataFrame without columns, and the column list of
\* the errors view on a DataFrame without those columns, raise KeyError.
OutputFileRaises(results_df) ==
    \/ ~HasColumns(results_df)
    \/ /\ SelectSeq(results_df, HasError) # <<>>
       /\ ~HasEvaluationColumns(results_df)

\* The workbook written, one sheet per non-empty DataFrame.
OutputFile(qualified_df, disqualified_df) ==
    [written |-> TRUE,
     ranked |-> [k \in 1..Len(qualified_df) |-> ToCell(qualified_df[k])],
     disqualified_non_us |-> disqualified_df]

NoReport ==
    [qualified |-> <<>>, errors |-> <<>>, disqualified |-> <<>>, skipped |-> <<>>,
     results |-> <<>>, total_in_file |-> 0, evaluated |-> 0, accounted |-> FALSE]

\* The DataFrames create_output_file returns and the numbers of
\* _render_processing_summary, 299-329.
ReportOf(qualified_df, errors_df, disqualified_df, skipped_df, results_df) ==
    LET total_disqualified == Len(disqualified_df)
        total_in_file == Len(results_df) + total_disqualified + Len(skipped_df)
        evaluated == Len(qualified_df) + total_disqualified + Len(errors_df)
    IN  [qualified |-> qualified_df, errors |-> errors_df,
         disqualified |-> disqualified_df, skipped |-> skipped_df,
         results |-> results_df, total_in_file |-> total_in_file,
         evaluated |-> evaluated,
         accounted |-> (evaluated + Len(skipped_df) = total_in_file)]

(***************************************************************************)
(* _handle_processing: src/arc/ui/main_content.py 173-289                  *)
(***************************************************************************)
NoFirstRun ==
    [qualified |-> {}, errors |-> {}, disqualified |-> {}, skipped |-> {},
     already_processed |-> {}, ranked |-> {}, rows |-> 0]

PipelineInit ==
    /\ df \in InputFiles
    /\ require_us_citizenship \in BOOLEAN
    /\ test_count \in 0..MaxTest
    /\ run = 1
    /\ pc = "start"
    /\ previous_results_file = NoFile
    /\ previous = NoPrevious
    /\ already_processed = <<>>
    /\ disqualified_non_us = <<>>
    /\ skipped_candidates = <<>>
    /\ valid_candidates = <<>>
    /\ pending = {}
    /\ completed_count = 0
    /\ results = <<>>
    /\ raised = {}
    /\ llm_calls = 0
    /\ called = {}
    /\ report = NoReport
    /\ output_file = NoFile
    /\ first_run = NoFirstRun

\* The previous results file is read, then process_candidates runs up to the
\* submission of the valid candidates to the pool (or returns, with none).
ScanCandidates ==
    /\ pc = "start"
    /\ LET prior == LoadPrevious(previous_results_file)
           rows == df_to_process(df, test_count)
           scan == ScanRows(rows, Len(rows), processed_identifiers(prior),
                            require_us_citizenship)
           valid == valid_of(scan.candidates_to_process)
       IN  /\ previous' = prior
           /\ already_processed' = scan.already_processed
           /\ disqualified_non_us' = scan.disqualified_non_us
           /\ skipped_candidates' = skipped_of(scan.candidates_to_process)
           /\ valid_candidates' = valid
           /\ pending' = 1..Len(valid)
           /\ pc' = IF Len(valid) = 0 THEN "returned" ELSE "pool"
    /\ completed_count' = 0
    /\ results' = <<>>
    /\ UNCHANGED <<df, require_us_citizenship, test_count, run, previous_results_file,
                   raised, llm_calls, called, report, output_file, first_run>>

\* The as_completed loop counting a future only when it holds a result.
CollectResultCountsSuccess(i, script) ==
    /\ pc = "pool"
    /\ i \in pending
    /\ LET candidate_info == valid_candidates[i]
           future == _evaluate_single_candidate(candidate_info, script)
       IN  /\ completed_count' = IF future.raises THEN completed_count
                                                   ELSE completed_count + 1
           /\ results' = results \o FutureRecords(candidate_info, future)
           /\ raised' = IF future.raises THEN raised \cup {candidate_info.row} ELSE raised
           /\ llm_calls' = llm_calls + future.calls
           /\ called' = IF future.calls > 0 THEN called \cup {candidate_info.row} ELSE called
    /\ pending' = pending \ {i}
    /\ pc' = IF pending' = {} THEN "returned" ELSE "pool"
    /\ UNCHANGED <<df, require_us_citizenship, test_count, run, previous_results_file,
                   previous, already_processed, disqualified_non_us,
                   skipped_candidates, valid_candidates, report, output_file, first_run>>

\* One pass of the as_completed loop: the future of valid candidate i is done,
\* its Gateway having answered with script; after the last one the pool is left
\* and process_candidates returns.
CollectResult(i, script) ==
    /\ pc = "pool"
    /\ i \in pending
    /\ LET candidate_info == valid_candidates[i]
           future == _evaluate_single_candidate(candidate_info, script)
       IN  /\ completed_count' = completed_count + 1
           /\ results' = results \o FutureRecords(candidate_info, future)
           /\ raised' = IF future.raises THEN raised \cup {candidate_info.row} ELSE raised
           /\ llm_calls' = llm_calls + future.calls
           /\ called' = IF future.calls > 0 THEN called \cup {candidate_info.row} ELSE called
    /\ pending' = pending \ {i}
    /\ pc' = IF pending' = {} THEN "returned" ELSE "pool"
    /\ UNCHANGED <<df, require_us_citizenship, test_count, run, previous_results_file,
                   previous, already_processed, disqualified_non_us,
                   skipped_candidates, valid_candidates, report, output_file, first_run>>

\* The merge with the previous results (261-271), the "No candidates were
\* processed" exit (273-275), create_output_file and the summary.
AssembleReport ==
    /\ pc = "returned"
    /\ LET results_df ==
               IF previous.results # <<>>
               THEN results \o successfully_processed(previous.results)
               ELSE results
           disqualified_df == disqualified_non_us \o previous.disqualified_non_us
           errors_df == SelectSeq(results_df, HasError)
       IN  IF results_df = <<>> /\ skipped_candidates = <<>> /\ disqualified_df = <<>>
           THEN /\ pc' = "nothing"
                /\ UNCHANGED <<report, output_file>>
           ELSE IF OutputFileRaises(results_df)
           THEN /\ pc' = "failed"
                /\ UNCHANGED <<report, output_file>>
           ELSE \E sorted \in SortValues(SelectSeq(results_df, HasNoError)) :
                /\ report' = ReportOf(WithRank(sorted), errors_df, disqualified_df,
                                      skipped_candidates, results_df)
                /\ output_file' = OutputFile(WithRank(sorted), disqualified_df)
                /\ pc' = "reported"
    /\ UNCHANGED <<df, require_us_citizenship, test_count, run, previous_results_file,
                   previous, already_processed, disqualified_non_us,
                   skipped_candidates, valid_candidates, pending, completed_count,
                   results, raised, llm_calls, called, first_run>>

\* The rows of a result sheet with their scores.
Scored(records) ==
    {[row |-> records[k].row, score |-> records[k].OverallScore] : k \in 1..Len(records)}

\* The same candidates file is processed again, the file just written given as
\* the previous results file; the test-mode number of the sidebar may be another
\* (a test run on the first rows, then the whole file).
StartSecondRun ==
    /\ pc = "reported"
    /\ run = 1
    /\ run' = 2
    /\ pc' = "start"
    /\ previous_results_file' = output_file
    /\ first_run' = [qualified |-> RowsOf(report.qualified),
                     errors |-> RowsOf(report.errors),
                     disqualified |-> RowsOf(report.disqualified),
                     skipped |-> RowsOf(report.skipped),
                     already_processed |-> RowsOf(already_processed),
                     ranked |-> Scored(report.qualified),
                     rows |-> Len(df_to_process(df, test_count))]
    /\ previous' = NoPrevious
    /\ already_processed' = <<>>
    /\ disqualified_non_us' = <<>>
    /\ skipped_candidates' = <<>>
    /\ valid_candidates' = <<>>
    /\ pending' = {}
    /\ completed_count' = 0
    /\ results' = <<>>
    /\ raised' = {}
    /\ llm_calls' = 0
    /\ called' = {}
    /\ report' = NoReport
    /\ output_file' = NoFile
    /\ test_count' \in 0..MaxTest
    /\ UNCHANGED <<df, require_us_citizenship>>

(***************************************************************************)
(* The worker pool: src/arc/processing.py 313-339                          *)
(*   with ThreadPoolExecutor(max_workers=PARALLEL_WORKERS) as executor     *)
(* total_valid tasks are submitted one after the other; submit starts a    *)
(* worker thread unless it can take a token of the idle semaphore or       *)
(* max_workers threads exist; a thread gives a token each time it has run  *)
(* a task; the threads take the tasks from the work queue in submission    *)
(* order.  Then the as_completed loop handles the futures that are done,   *)
(* and leaving the with block shuts the executor down.                     *)
(***************************************************************************)
\* A pool that starts a thread whenever no idle token is there.
CanAddThreadUnbounded(num_threads, idle_tokens) == idle_tokens = 0

\* A pool of one thread.
CanAddThreadSingle(num_threads, idle_tokens) == num_threads < 1

\* _adjust_thread_count: no idle token, and num_threads < max_workers
CanAddThread(num_threads, idle_tokens) ==
    idle_tokens = 0 /\ num_threads < PARALLEL_WORKERS

\* The state on entering the with block, with total_valid tasks to submit.
PoolCreated ==
    /\ submitted = 0
    /\ threads = 0
    /\ started = 0
    /\ running = {}
    /\ finished = {}
    /\ invocations = [i \in 1..total_valid |-> 0]
    /\ idle = 0
    /\ handled = 0
    /\ executor = "open"

PoolInit ==
    /\ total_valid \in 1..MaxValid
    /\ stuck = {}
    /\ PoolCreated

PoolIdle ==
    /\ total_valid = 0
    /\ submitted = 0
    /\ threads = 0
    /\ started = 0
    /\ running = {}
    /\ finished = {}
    /\ invocations = <<>>
    /\ idle = 0
    /\ handled = 0
    /\ executor = "none"
    /\ stuck = {}

\* executor.submit(_evaluate_single_candidate, client, candidate_data, ...)
Submit ==
    /\ executor = "open"
    /\ submitted < total_valid
    /\ submitted' = submitted + 1
    /\ threads' = IF CanAddThread(threads, idle) THEN threads + 1 ELSE threads
    /\ idle' = IF idle > 0 THEN idle - 1 ELSE idle
    /\ UNCHANGED <<total_valid, started, running, finished, invocations, handled,
                   executor, stuck>>

\* A thread without a task takes the next work item and calls
\* _evaluate_single_candidate: the candidate is inside evaluate_candidate (a
\* Gateway call or a backoff sleep) until the task ends.
TaskStarts ==
    /\ started < submitted
    /\ Cardinality(running) < threads
    /\ started' = started + 1
    /\ running' = running \cup {started + 1}
    /\ invocations' = [invocations EXCEPT ![started + 1] = @ + 1]
    /\ UNCHANGED <<total_valid, submitted, threads, finished, idle, handled,
                   executor, stuck>>

\* _evaluate_single_candidate returns or raises; the future is done.  A task
\* in stuck is inside a Gateway call that never returns.
TaskEnds(i) ==
    /\ i \in running
    /\ i \notin stuck
    /\ running' = running \ {i}
    /\ finished' = finished \cup {i}
    /\ idle' = idle + 1
    /\ UNCHANGED <<total_valid, submitted, threads, started, invocations, handled,
                   executor, stuck>>

\* for future in as_completed(future_to_candidate): one more future handled,
\* once every task is submitted.
HandleCompleted ==
    /\ executor = "open"
    /\ submitted = total_valid
    /\ handled < Cardinality(finished)
    /\ handled' = handled + 1
    /\ UNCHANGED <<total_valid, submitted, threads, started, running, finished,
                   invocations, idle, executor, stuck>>

\* A return as soon as every task is submitted, without the as_completed loop
\* and without waiting for the threads.
ReturnWithoutWaiting ==
    /\ executor = "open"
    /\ submitted = total_valid
    /\ executor' = "shutdown"
    /\ UNCHANGED <<total_valid, submitted, threads, started, running, finished,
                   invocations, idle, handled, stuck>>

\* The loop is over, the with block is left (shutdown(wait=True) joins the
\* threads) and process_candidates returns.
ReturnResults ==
    /\ executor = "open"
    /\ submitted = total_valid
    /\ handled = total_valid
    /\ executor' = "shutdown"
    /\ threads' = 0
    /\ idle' = 0
    /\ UNCHANGED <<total_valid, submitted, started, running, finished, invocations,
                   handled, stuck>>

\* The next batch: process_candidates is called again and creates its own
\* ThreadPoolExecutor.
NextBatch ==
    /\ executor = "shutdown"
    /\ submitted' = 0
    /\ threads' = 0
    /\ started' = 0
    /\ running' = {}
    /\ finished' = {}
    /\ invocations' = [i \in 1..total_valid |-> 0]
    /\ idle' = 0
    /\ handled' = 0
    /\ executor' = "open"
    /\ UNCHANGED <<total_valid, stuck>>

\* A batch of MaxBatch valid candidates; the Gateway never answers the calls of
\* the first k of them, k up to the pool width.
BatchInit ==
    /\ total_valid = MaxBatch
    /\ stuck \in {1..k : k \in 0..PARALLEL_WORKERS}
    /\ PoolCreated

(***************************************************************************)
(* A run on a previous results file the user uploads: main_content.py      *)
(* 218-247.  The file may come from another candidates file, its emails    *)
(* may differ in case and surrounding whitespace from the current ones,    *)
(* and its 'Ranked Candidates' sheet may have rows with an Error.          *)
(***************************************************************************)
PriorEmails ==
    {Email("ann@x.org", FALSE, FALSE), Email("ann@x.org", TRUE, TRUE),
     Email("bob@x.org", FALSE, FALSE)}

CandidateEmails ==
    {Email("ann@x.org", FALSE, FALSE), Email("ann@x.org", TRUE, FALSE),
     Email("ann@x.org", FALSE, TRUE), Email("bob@x.org", FALSE, FALSE), NaNEmail}

\* The rows of an uploaded 'Ranked Candidates' sheet (row 0: no row of the
\* current candidates file) and of an uploaded disqualification sheet.
PriorRankedRows ==
    [row : {0}, Email : PriorEmails, OverallScore : {70}, Error : {NaN, "API Error"},
     full : {TRUE}, Rank : {1}]

PriorDisqualifiedRows ==
    [row : {0}, Email : PriorEmails, Note : {"Not a U.S. Citizen"}]

PriorFiles ==
    [written : {TRUE},
     ranked : UNION {[1..n -> PriorRankedRows] : n \in 0..MaxPrior},
     disqualified_non_us : UNION {[1..n -> PriorDisqualifiedRows] : n \in 0..1}]

PriorRunInit ==
    /\ df \in [1..1 -> [email : CandidateEmails, us_citizen : {"Yes", "No"},
                        resume_text : {"resume", NaN}]]
    /\ require_us_citizenship \in BOOLEAN
    /\ test_count = 0
    /\ run = 2
    /\ pc = "start"
    /\ previous_results_file \in PriorFiles
    /\ previous = NoPrevious
    /\ already_processed = <<>>
    /\ disqualified_non_us = <<>>
    /\ skipped_candidates = <<>>
    /\ valid_candidates = <<>>
    /\ pending = {}
    /\ completed_count = 0
    /\ results = <<>>
    /\ raised = {}
    /\ llm_calls = 0
    /\ called = {}
    /\ report = NoReport
    /\ output_file = NoFile
    /\ first_run = NoFirstRun

(***************************************************************************)
(* Specifications                                                          *)
(***************************************************************************)
PipelineIdle ==
    /\ df = <<>>
    /\ require_us_citizenship = FALSE
    /\ test_count = 0
    /\ run = 1
    /\ pc = "idle"
    /\ previous_results_file = NoFile
    /\ previous = NoPrevious
    /\ already_processed = <<>>
    /\ disqualified_non_us = <<>>
    /\ skipped_candidates = <<>>
    /\ valid_candidates = <<>>
    /\ pending = {}
    /\ completed_count = 0
    /\ results = <<>>
    /\ raised = {}
    /\ llm_calls = 0
    /\ called = {}
    /\ report = NoReport
    /\ output_file = NoFile
    /\ first_run = NoFirstRun

Init == PipelineInit /\ WeightsInit /\ EvalInit /\ PoolIdle

Next ==
    \/ ScanCandidates /\ UNCHANGED <<wvars, evars, poolvars>>
    \/ (\E i \in 1..MaxRows, script \in BatchScripts : CollectResult(i, script))
          /\ UNCHANGED <<wvars, evars, poolvars>>
    \/ AssembleReport /\ UNCHANGED <<wvars, evars, poolvars>>
    \/ StartSecondRun /\ UNCHANGED <<wvars, evars, poolvars>>

Spec == Init /\ [][Next]_vars

InitEval == EvalInit /\ WeightsInit /\ PipelineIdle /\ PoolIdle

NextEval ==
    \/ (\E resp \in Responses : GatewayCall(resp)) /\ UNCHANGED <<wvars, pvars, poolvars>>
    \/ (\E jitter \in Jitters : BackoffSleep(jitter)) /\ UNCHANGED <<wvars, pvars, poolvars>>

SpecEval == InitEval /\ [][NextEval]_vars

InitWeights == WeightsInit /\ EvalInit /\ PipelineIdle /\ PoolIdle

NextWeights ==
    \/ (\E v \in SliderValues : MoveRequired(v)) /\ UNCHANGED <<evars, pvars, poolvars>>
    \/ (\E v \in SliderValues : MovePreferred(v)) /\ UNCHANGED <<evars, pvars, poolvars>>
    \/ (\E v \in SliderValues : MoveEducation(v)) /\ UNCHANGED <<evars, pvars, poolvars>>

SpecWeights == InitWeights /\ [][NextWeights]_vars

InitPool == PoolInit /\ WeightsInit /\ EvalInit /\ PipelineIdle

NextPool ==
    \/ Submit /\ UNCHANGED <<wvars, evars, pvars>>
    \/ TaskStarts /\ UNCHANGED <<wvars, evars, pvars>>
    \/ (\E i \in 1..MaxValid : TaskEnds(i)) /\ UNCHANGED <<wvars, evars, pvars>>

SpecPool == InitPool /\ [][NextPool]_vars

InitBatch == BatchInit /\ WeightsInit /\ EvalInit /\ PipelineIdle

NextBatchRun ==
    \/ Submit /\ UNCHANGED <<wvars, evars, pvars>>
    \/ TaskStarts /\ UNCHANGED <<wvars, evars, pvars>>
    \/ (\E i \in 1..MaxBatch : TaskEnds(i)) /\ UNCHANGED <<wvars, evars, pvars>>
    \/ HandleCompleted /\ UNCHANGED <<wvars, evars, pvars>>
    \/ ReturnResults /\ UNCHANGED <<wvars, evars, pvars>>
    \/ NextBatch /\ UNCHANGED <<wvars, evars, pvars>>

\* Every step that can be taken is taken in the end: the main thread and the
\* worker threads run, and a Gateway call outside stuck returns or raises.
BatchFairness ==
    /\ WF_vars(Submit /\ UNCHANGED <<wvars, evars, pvars>>)
    /\ WF_vars(TaskStarts /\ UNCHANGED <<wvars, evars, pvars>>)
    /\ WF_vars((\E i \in 1..MaxBatch : TaskEnds(i)) /\ UNCHANGED <<wvars, evars, pvars>>)
    /\ WF_vars(HandleCompleted /\ UNCHANGED <<wvars, evars, pvars>>)
    /\ WF_vars(ReturnResults /\ UNCHANGED <<wvars, evars, pvars>>)

SpecBatch == InitBatch /\ [][NextBatchRun]_vars /\ BatchFairness

InitPrior == PriorRunInit /\ WeightsInit /\ EvalInit /\ PoolIdle

NextPrior ==
    \/ ScanCandidates /\ UNCHANGED <<wvars, evars, poolvars>>
    \/ (\E i \in 1..MaxRows, script \in BatchScripts : CollectResult(i, script))
          /\ UNCHANGED <<wvars, evars, poolvars>>
    \/ AssembleReport /\ UNCHANGED <<wvars, evars, poolvars>>

SpecPrior == InitPrior /\ [][NextPrior]_vars

(***************************************************************************)
(* Properties                                                              *)
(***************************************************************************)
Occurrences(records, r) == Cardinality({k \in 1..Len(records) : records[k].row = r})

Returned == pc \in {"returned", "reported", "failed", "nothing"}

CappedInput == df_to_process(df, test_count)

\* The second run reads the rows the first run read.
SameInput == first_run.rows = Len(CappedInput)

\* C1: once process_candidates has returned, every row of the capped input is
\* in exactly one of results, skipped, disqualified_non_us, already_processed,
\* exactly once, and no other row is in any of them.
C1_PartitionsDisjointAndComplete ==
    Returned =>
        \A r \in 1..Len(df) :
            Occurrences(results, r) + Occurrences(skipped_candidates, r)
              + Occurrences(disqualified_non_us, r) + Occurrences(already_processed, r)
            = IF r <= Len(CappedInput) THEN 1 ELSE 0

C1_Witness ==
    /\ run = 2
    /\ pc = "returned"
    /\ already_processed # <<>>
    /\ results # <<>>

\* C2: in the report, |qualified| + |disqualified| + |errors| + |skipped| +
\* |already_processed| equals the size of the input, re-runs with merged prior
\* results included.
C2_PartitionCompleteness ==
    pc = "reported" =>
        Len(report.qualified) + Len(report.disqualified) + Len(report.errors)
          + Len(report.skipped) + Len(already_processed) = Len(CappedInput)

\* Every row of the capped input has an email, and no two rows share one.
EmailsIdentify ==
    /\ \A r \in 1..Len(CappedInput) : CappedInput[r].email # NaNEmail
    /\ \A r, q \in 1..Len(CappedInput) :
          str_lower(str_strip(CappedInput[r].email)) = str_lower(str_strip(CappedInput[q].email))
              => r = q

\* C3: in the second run over the same input, with the first run's file as the
\* previous results file, already_processed is exactly the set of candidates
\* that the first run qualified or disqualified (stated for inputs whose emails
\* identify the candidates).
C3_DedupIdempotence ==
    (run = 2 /\ Returned /\ SameInput /\ EmailsIdentify) =>
        RowsOf(already_processed) = first_run.qualified \cup first_run.disqualified

\* C4 as claimed: the second run makes no Gateway call.
C4_NoCallInSecondRun == (run = 2 /\ SameInput) => llm_calls = 0

\* C4, amended: the second run submits to the Evaluator only candidates whose
\* first-run result was an error, and makes no Gateway call when the first run
\* had no error result.
C4_SecondRunCallsOnlyForErrors ==
    (run = 2 /\ SameInput) =>
        /\ RowsOf(valid_candidates) \subseteq first_run.errors
        /\ (llm_calls > 0 => pc # "start" /\ valid_candidates # <<>>)
        /\ (first_run.errors = {} => llm_calls = 0)

C4_Witness ==
    /\ run = 2
    /\ pc = "returned"
    /\ llm_calls > 0
    /\ already_processed # <<>>

IsThrottled(resp) == resp.kind = "raises" /\ _is_throttling_error(resp.exc)

AllThrottled == \A k \in 1..Len(responses) : IsThrottled(responses[k])

\* C5: against a Gateway that raises a throttling error on every call,
\* evaluate_candidate returns after exactly 4 calls and exactly 3 sleeps, with
\* an error result; it makes no fifth call and returns no earlier.
C5_RetryBound ==
    AllThrottled =>
        /\ ev.calls = Len(responses)
        /\ ev.calls <= 4
        /\ ev.sleeps <= 3
        /\ (ev.status = "returned" <=> ev.calls = 4)
        /\ (ev.status = "returned" =>
               /\ ev.sleeps = 3
               /\ ev.result.error = "API Error"
               /\ ev.result.overall_score = 0)

C5_Witness ==
    /\ AllThrottled
    /\ Len(responses) = 4
    /\ ev.status = "returned"

\* An exception whose text holds none of the throttling terms.
NonThrottlingError(resp) ==
    resp.kind = "raises" /\ resp.exc.terms \cap ThrottlingTerms = {}

\* C6: a non-throttling error on the first call ends evaluate_candidate with
\* an error result after that one call, without a sleep.
C6_NonThrottlingShortCircuit ==
    (Len(responses) >= 1 /\ NonThrottlingError(responses[1])) =>
        /\ ev.status = "returned"
        /\ ev.calls = 1
        /\ ev.sleeps = 0
        /\ ev.result.error = "API Error"
        /\ ev.result.overall_score = 0

C6_Witness ==
    /\ Len(responses) = 1
    /\ NonThrottlingError(responses[1])
    /\ ev.status = "returned"

\* C7: an answer that is no JSON, on whichever attempt it arrives, is the last
\* call of evaluate_candidate: it returns a result with a non-empty error and
\* overall_score 0.
C7_MalformedJsonIsTerminal ==
    \A k \in 1..Len(responses) :
        responses[k].kind = "malformed" =>
            /\ k = Len(responses)
            /\ ev.calls = k
            /\ ev.status = "returned"
            /\ ev.result.error # ""
            /\ ev.result.overall_score = 0

C7_Witness ==
    /\ Len(responses) = 2
    /\ IsThrottled(responses[1])
    /\ responses[2].kind = "malformed"
    /\ ev.status = "returned"

\* C8: the ranked list holds exactly the results without error, by descending
\* score, results of equal score in the order of the input rows, with ranks
\* 1..N in that order.
C8_StableRanking ==
    pc = "reported" =>
        /\ RowsOf(report.qualified) = RowsOf(SelectSeq(report.results, HasNoError))
        /\ Len(report.qualified) = Len(SelectSeq(report.results, HasNoError))
        /\ \A i, j \in 1..Len(report.qualified) :
              i < j =>
                \/ report.qualified[i].OverallScore > report.qualified[j].OverallScore
                \/ /\ report.qualified[i].OverallScore = report.qualified[j].OverallScore
                   /\ report.qualified[i].row < report.qualified[j].row
        /\ \A k \in 1..Len(report.qualified) : report.qualified[k].Rank = k

\* C9: every candidate whose future has been collected has exactly one record
\* in results, its own; a candidate whose task raised has a record with the
\* processing-error marker, and the siblings keep their results.
C9_ConcurrentIndependence ==
    \A k \in 1..Len(valid_candidates) :
        k \notin pending =>
            /\ Occurrences(results, valid_candidates[k].row) = 1
            /\ \A n \in 1..Len(results) :
                  results[n].row = valid_candidates[k].row =>
                      IF valid_candidates[k].row \in raised
                      THEN results[n].Error = "Processing error"
                      ELSE results[n].full /\ results[n].Error # "Processing error"

C9_Witness ==
    /\ pc = "returned"
    /\ raised # {}
    /\ \E n \in 1..Len(results) : results[n].row \notin raised

\* C10: with the sliders not all at 0, the normalized weights are non-negative
\* integers that sum to exactly 100; required_skills and preferred_skills are
\* the nearest integers to their exact shares, and education takes what is left
\* (within 1 of its exact share).
C10_WeightsSumTo100 ==
    LET total == required_weight + preferred_weight + education_weight
        Dist(a, b) == IF a >= b THEN a - b ELSE b - a
    IN  total > 0 =>
          /\ custom_weights.required_skills \in 0..100
          /\ custom_weights.preferred_skills \in 0..100
          /\ custom_weights.education \in 0..100
          /\ custom_weights.required_skills + custom_weights.preferred_skills
               + custom_weights.education = 100
          /\ 2 * Dist(custom_weights.required_skills * total, 100 * required_weight) <= total
          /\ 2 * Dist(custom_weights.preferred_skills * total, 100 * preferred_weight) <= total
          /\ Dist(custom_weights.education * total, 100 * education_weight) <= total

C10_Witness ==
    LET total == required_weight + preferred_weight + education_weight
    IN  /\ total > 0
        /\ total # 100
        /\ custom_weights.education # NormalizedShare(education_weight, total)

\* C11: with the sliders not all at 0, normalization keeps the order of the
\* weights: for every pair of categories, a greater slider value gives a
\* normalized weight that is not smaller, and equal slider values give equal
\* normalized weights.
C11_OrderPreserved ==
    LET total == required_weight + preferred_weight + education_weight
        input == <<required_weight, preferred_weight, education_weight>>
        normalized == <<custom_weights.required_skills, custom_weights.preferred_skills,
                        custom_weights.education>>
    IN  total > 0 =>
          \A a, b \in 1..3 :
              /\ (input[a] > input[b] => normalized[a] >= normalized[b])
              /\ (input[a] = input[b] => normalized[a] = normalized[b])

FilteredRows ==
    RowsOf(already_processed) \cup RowsOf(disqualified_non_us)
        \cup RowsOf(skipped_candidates)

\* C12: no Gateway call is made for a candidate in already_processed,
\* disqualified_non_us or skipped_candidates; when the first Gateway call of a
\* run has been made every row of the capped input is already classified
\* (filtered out, or a valid candidate), and a step that makes a Gateway call
\* changes none of these classifications.
C12_FilteredNeverCalled ==
    /\ [](/\ called \cap FilteredRows = {}
          /\ called \subseteq RowsOf(valid_candidates)
          /\ (llm_calls > 0 <=> called # {})
          /\ (called # {} =>
                \A r \in 1..Len(CappedInput) :
                    r \in FilteredRows \cup RowsOf(valid_candidates)))
    /\ [][llm_calls' > llm_calls =>
            UNCHANGED <<already_processed, disqualified_non_us, skipped_candidates,
                        valid_candidates>>]_vars

C12_Witness ==
    /\ pc = "returned"
    /\ called # {}
    /\ skipped_candidates # <<>>

\* The full candidate pool of a re-run: the rows read by either run.
FullPool ==
    SubSeq(df, 1, IF first_run.rows >= Len(CappedInput) THEN first_run.rows
                  ELSE Len(CappedInput))

\* The candidates a single run over the full pool, without a previous results
\* file, submits to the Evaluator.
SingleRunValid ==
    RowsOf(valid_of(ScanRows(FullPool, Len(FullPool), {}, require_us_citizenship)
                        .candidates_to_process))

\* C13: the ranked list of a re-run is the ranked list of a single run over
\* the full pool with the same Gateway answers: it holds every candidate the
\* single run evaluates without error, once, with the score of its answer
\* (ranked in the first run, or answered without error in this one), by
\* descending score with ranks 1..N; a candidate the single run evaluates has
\* been evaluated by one of the two runs.
C13_RerunEqualsSingleRun ==
    (run = 2 /\ pc = "reported") =>
        /\ Scored(report.qualified)
             = first_run.ranked \cup Scored(SelectSeq(results, HasNoError))
        /\ Cardinality(RowsOf(report.qualified)) = Len(report.qualified)
        /\ \A k \in 1..Len(report.qualified) : report.qualified[k].Rank = k
        /\ \A i, j \in 1..Len(report.qualified) :
              i < j => report.qualified[i].OverallScore >= report.qualified[j].OverallScore
        /\ SingleRunValid \subseteq
              first_run.qualified \cup first_run.errors \cup RowsOf(results)

\* C14: whatever partitions the run hands over, create_output_file does not
\* raise: a run that has something to report ends with the report (a ranked
\* list, an errors list, the summary numbers) and a written file.
C14_ReportNeverRaises ==
    /\ pc # "failed"
    /\ (pc = "reported" =>
          /\ output_file.written
          /\ Len(report.qualified) + Len(report.errors) = Len(report.results))

\* C15: every record of results has either an empty Error and its evaluation
\* columns, or a non-empty Error and its score columns with an Overall Score
\* of 0; none has a non-empty Error with another score.
C15_ErrorXorEvaluation ==
    \A k \in 1..Len(results) :
        /\ (results[k].Error = "" => results[k].full /\ results[k].OverallScore \in Scores)
        /\ (results[k].Error # "" => results[k].full /\ results[k].OverallScore = 0)

\* C16: at every moment at most PARALLEL_WORKERS (10) candidates are inside
\* the Evaluator, however many valid candidates there are, and every valid
\* candidate gets one Evaluator invocation: never a second, and exactly one
\* once every future is done.
C16_PoolWidth ==
    /\ Cardinality(running) <= PARALLEL_WORKERS
    /\ threads <= PARALLEL_WORKERS
    /\ \A i \in 1..total_valid : invocations[i] <= 1
    /\ \A i \in 1..total_valid : i \in running \cup finished <=> invocations[i] = 1
    /\ (submitted = total_valid /\ started = submitted /\ running = {} =>
           finished = 1..total_valid)

C16_Witness ==
    /\ total_valid > PARALLEL_WORKERS
    /\ Cardinality(running) = PARALLEL_WORKERS
    /\ started < submitted

\* The rows of a sheet, from the first to the last.
RowOrder(records) == [k \in 1..Len(records) |-> records[k].row]

\* The ranking by descending score, then by input row.
ByScoreThenRow(records) ==
    CHOOSE sorted \in SortValues(records) :
        \A i, j \in 1..Len(sorted) :
            (i < j /\ sorted[i].OverallScore = sorted[j].OverallScore)
                => sorted[i].row < sorted[j].row

\* C17: the ranked list of a run without previous results is the same for
\* every order in which the futures complete: the one ranking of its results
\* without error by score, then by input row, with ranks 1..N.
C17_CompletionOrderIndependent ==
    (run = 1 /\ pc = "reported") =>
        /\ RowOrder(report.qualified)
             = RowOrder(ByScoreThenRow(SelectSeq(results, HasNoError)))
        /\ \A k \in 1..Len(report.qualified) : report.qualified[k].Rank = k

\* C18: with a test-mode number N >= 1, only the first N rows of the file are
\* read by process_candidates: no later row is in results, skipped,
\* disqualified_non_us or already_processed, is a valid candidate or gets a
\* Gateway call, even if its email is in the set of processed emails, it fails
\* the citizenship gate or it has no resume text.
C18_TestModeCap ==
    test_count >= 1 =>
        \A r \in RowsOf(results) \cup RowsOf(skipped_candidates)
                   \cup RowsOf(disqualified_non_us) \cup RowsOf(already_processed)
                   \cup RowsOf(valid_candidates) \cup called :
            r <= test_count

C18_Witness ==
    /\ run = 2
    /\ pc = "returned"
    /\ test_count = 1
    /\ Len(df) > test_count
    /\ first_run.rows = Len(df)
    /\ first_run.qualified \cup first_run.disqualified \cup first_run.skipped = 1..Len(df)
    /\ previous.results # <<>>
    /\ already_processed # <<>>

\* Two email cells that differ at most in case and surrounding whitespace.
SameEmail(a, b) == a.name = b.name

\* The rows of the uploaded file that settle a candidate: the ranked rows with
\* an empty Error cell and the disqualification rows; and its ranked rows with
\* an Error.
SettledPrior ==
    {previous_results_file.ranked[k].Email :
        k \in {n \in 1..Len(previous_results_file.ranked) :
                  previous_results_file.ranked[n].Error = NaN}}
    \cup {previous_results_file.disqualified_non_us[k].Email :
             k \in 1..Len(previous_results_file.disqualified_non_us)}

ErroredPrior ==
    {previous_results_file.ranked[k].Email :
        k \in {n \in 1..Len(previous_results_file.ranked) :
                  previous_results_file.ranked[n].Error # NaN}}

OnlyErroredBefore(r) ==
    LET email == extract_candidate_info(r, df[r]).email
    IN  /\ \E e \in ErroredPrior : SameEmail(e, email)
        /\ \A e \in SettledPrior : ~SameEmail(e, email)

PriorEntries ==
    ({previous.results[k].Email :
         k \in {n \in 1..Len(previous.results) : previous.results[n].Error = ""}}
     \cup {previous.disqualified_non_us[k].Email :
              k \in 1..Len(previous.disqualified_non_us)}) \ {NaNEmail}

\* C20: the dedup key is the email trimmed and lowercased on both sides: a
\* candidate is in already_processed if and only if its email equals, case and
\* surrounding whitespace apart, the email of an entry of the prior-processed
\* set.
C20_DedupKeyNormalized ==
    pc # "start" =>
        \A r \in 1..Len(df_to_process(df, test_count)) :
            r \in RowsOf(already_processed)
              <=> \E e \in PriorEntries :
                     SameEmail(e, extract_candidate_info(r, df[r]).email)

C20_Witness ==
    /\ pc = "returned"
    /\ already_processed # <<>>
    /\ df[1].email.padded
    /\ \E e \in PriorEntries : e.caps /\ SameEmail(e, df[1].email)

\* An exception whose text holds a throttling term.
ThrottlingError(resp) ==
    resp.kind = "raises" /\ resp.exc.terms \cap ThrottlingTerms # {}

\* C21: when the first k calls (k in 0..3) raise throttling errors and the next
\* one answers a JSON object, evaluate_candidate returns that object after
\* exactly k+1 calls and k sleeps; a call after the first is made only after a
\* throttling error, and a sleep only after a throttling error with attempts
\* remaining.
C21_ThrottledThenSuccess ==
    /\ \A k \in 0..MAX_RETRIES :
          (/\ Len(responses) = k + 1
           /\ \A j \in 1..k : ThrottlingError(responses[j])
           /\ responses[k + 1].kind = "object") =>
              /\ ev.status = "returned"
              /\ ev.calls = k + 1
              /\ ev.sleeps = k
              /\ ev.result.value = "object"
              /\ ev.result.overall_score = responses[k + 1].score
              /\ ev.result.error = responses[k + 1].error
    /\ \A j \in 1..(Len(responses) - 1) : ThrottlingError(responses[j]) /\ j <= MAX_RETRIES
    /\ ev.sleeps <= Cardinality({j \in 1..Len(responses) : ThrottlingError(responses[j])})
    /\ ev.sleeps <= MAX_RETRIES

C21_Witness ==
    /\ Len(responses) = MAX_RETRIES + 1
    /\ \A j \in 1..MAX_RETRIES : ThrottlingError(responses[j])
    /\ responses[MAX_RETRIES + 1] = JsonObject(90)
    /\ ev.status = "returned"
    /\ ev.sleeps = MAX_RETRIES

\* C22: the n-th backoff sleep of a candidate (attempt counter n-1) lasts
\* between 2*2^(n-1) and 2*2^(n-1) + 1 seconds, both capped at MAX_DELAY (30 s),
\* and is longer than the sleep before it.
C22_BackoffDelay ==
    \A n \in 1..Len(ev.delays) :
        /\ ev.delays[n] <= MAX_DELAY * TicksPerSecond
        /\ ev.delays[n] >= Min(2 * 2^(n - 1) * TicksPerSecond, 30 * TicksPerSecond)
        /\ ev.delays[n] <= Min((2 * 2^(n - 1) + 1) * TicksPerSecond, 30 * TicksPerSecond)
        /\ (n > 1 => ev.delays[n] > ev.delays[n - 1])

C22_Witness ==
    /\ Len(ev.delays) = 3
    /\ ev.delays[1] = 3 * TicksPerSecond
    /\ ev.delays[2] = 4 * TicksPerSecond
    /\ ev.delays[3] > 8 * TicksPerSecond

\* C23: evaluate_candidate makes no call after a non-throttling error nor
\* after the fourth call, and when its last call raised, the result is the API
\* error with the text of the exception of that last call and an overall score
\* of 0.
C23_LastErrorReported ==
    /\ Len(responses) <= MAX_RETRIES + 1
    /\ \A j \in 1..Len(responses) :
          (responses[j].kind = "raises" /\ responses[j].exc.terms \cap ThrottlingTerms = {})
              => (j = Len(responses) /\ ev.status = "returned")
    /\ (Len(responses) = MAX_RETRIES + 1 => ev.status = "returned")
    /\ ((ev.status = "returned" /\ responses[Len(responses)].kind = "raises") =>
           /\ ev.result.error = "API Error"
           /\ ev.result.detail = responses[Len(responses)].exc.text
           /\ ev.result.overall_score = 0)

C23_Witness ==
    /\ ev.status = "returned"
    /\ Len(responses) = 2
    /\ ThrottlingError(responses[1])
    /\ responses[2].kind = "raises"
    /\ responses[2].exc.text # responses[1].exc.text

\* C24: when every Gateway call returns or raises, process_candidates returns
\* in the end; when it has returned every submitted evaluation is done and
\* handled, no task is running and no thread of the pool is left; the next
\* batch starts with a pool of its own, without threads or tasks.
C24_BatchTerminates ==
    /\ [](executor = "shutdown" =>
            /\ finished = 1..total_valid
            /\ handled = total_valid
            /\ running = {}
            /\ threads = 0)
    /\ [][(executor = "shutdown" /\ executor' = "open") =>
             (threads' = 0 /\ running' = {} /\ started' = 0 /\ submitted' = 0)]_vars
    /\ ((stuck = {} /\ executor = "open") ~> (executor = "shutdown"))

C24_Witness ==
    /\ stuck = {}
    /\ total_valid > PARALLEL_WORKERS
    /\ executor = "shutdown"

\* C25: with a Gateway call that never returns the batch never returns; with
\* fewer such calls than the pool has threads, every other candidate's
\* evaluation is started and completed and its future handled.
C25_StuckCall ==
    /\ [](stuck # {} => executor = "open")
    /\ <>[]((stuck # {} /\ Cardinality(stuck) < PARALLEL_WORKERS) =>
               /\ finished = (1..total_valid) \ stuck
               /\ running = stuck
               /\ handled = Cardinality(finished))

C25_Witness ==
    /\ Cardinality(stuck) = PARALLEL_WORKERS - 1
    /\ running = stuck
    /\ finished = (1..total_valid) \ stuck
    /\ handled = Cardinality(finished)
    /\ executor = "open"

\* C26: whatever the order in which the futures complete, when
\* process_candidates has returned results holds exactly one record per valid
\* candidate; each record carries the row and email of its own candidate and is
\* the record that candidate's own Gateway answers give, so the records depend
\* on no other candidate and on no position in the completion order.
C26_OneRecordPerCandidate ==
    Returned =>
        /\ Len(results) = Len(valid_candidates)
        /\ completed_count = Len(valid_candidates)
        /\ \A k \in 1..Len(valid_candidates) :
              Occurrences(results, valid_candidates[k].row) = 1
        /\ \A n \in 1..Len(results) :
              \E k \in 1..Len(valid_candidates) :
                  /\ results[n].row = valid_candidates[k].row
                  /\ results[n].Email = valid_candidates[k].email
                  /\ \E script \in BatchScripts :
                        <<results[n]>> =
                            FutureRecords(valid_candidates[k],
                                _evaluate_single_candidate(valid_candidates[k], script))

\* Two candidates whose futures completed in the reverse of submission order,
\* with different outcomes.
C26_Witness ==
    /\ pc = "returned"
    /\ Len(results) = 2
    /\ results[1].row > results[2].row
    /\ results[1].Error # results[2].Error

\* C27: the already-processed check comes before the citizenship check and the
\* resume filter: a candidate whose email is in the prior-processed set is in
\* already_processed also when it is no U.S. citizen (citizenship required) or
\* has no resume text, and is neither disqualified, skipped, submitted to the
\* pool nor sent to the Gateway.
C27_PriorPartitionFirst ==
    pc # "start" =>
        \A r \in 1..Len(df_to_process(df, test_count)) :
            (\E e \in PriorEntries : SameEmail(e, extract_candidate_info(r, df[r]).email))
              => /\ r \in RowsOf(already_processed)
                 /\ r \notin RowsOf(disqualified_non_us)
                 /\ r \notin RowsOf(skipped_candidates)
                 /\ r \notin RowsOf(valid_candidates)
                 /\ r \notin called

\* An already-processed candidate that would fail both gates.
C27_Witness ==
    /\ pc = "returned"
    /\ require_us_citizenship
    /\ df[1].us_citizen = "No"
    /\ df[1].resume_text = NaN
    /\ RowsOf(already_processed) = {1}
    /\ disqualified_non_us = <<>>
    /\ skipped_candidates = <<>>

\* C28: completed_count is 0 when process_candidates starts the pool, grows by
\* exactly 1 with every future the as_completed loop takes, whether it holds a
\* result or raises, and by nothing else; it is the number of futures taken so
\* far, never more than the number of valid candidates, and equal to it when
\* process_candidates returns, so completed_count / total_valid is 1 with the
\* last future and not before.
C28_ProgressCounter ==
    /\ [][pc = "start" => completed_count' = 0]_vars
    /\ [][pc = "pool" => /\ completed_count' = completed_count + 1
                         /\ Len(results') = Len(results) + 1]_vars
    /\ [](pc = "pool" =>
            /\ completed_count = Len(valid_candidates) - Cardinality(pending)
            /\ completed_count < Len(valid_candidates))
    /\ [](completed_count <= Len(valid_candidates))
    /\ [](Returned => completed_count = Len(valid_candidates))

\* Two futures counted, one of them holding an exception.
C28_Witness ==
    /\ pc = "returned"
    /\ completed_count = 2
    /\ Cardinality(raised) = 1

\* The emails of the rows of a sheet, in order.
EmailsOf(records) == [k \in 1..Len(records) |-> records[k].Email]

\* No two entries of a list of emails are the same address, case and
\* surrounding whitespace apart.
AllDistinct(emails) ==
    \A i, j \in 1..Len(emails) : i # j => ~SameEmail(emails[i], emails[j])

\* Every candidate of the input file has an email of its own (the placeholder
\* of a missing email counts as one), and so has every row of the previous
\* results file, its two sheets taken together.
UniqueEmails ==
    /\ AllDistinct([r \in 1..Len(df) |-> extract_candidate_info(r, df[r]).email])
    /\ AllDistinct(EmailsOf(previous_results_file.ranked)
                      \o EmailsOf(previous_results_file.disqualified_non_us))

C30_MissingEmailNotConfused ==
    (run = 2 /\ pc # "start") =>
        \A k \in 1..Len(already_processed) :
            df[already_processed[k].row].email = NaNEmail
              => already_processed[k].row \in first_run.qualified \cup first_run.disqualified

====
